---- MODULE Spec2Model ----
(***************************************************************************)
(* Retrieval-routing orchestrator of the video game agent:                 *)
(*   lib/state_machine.py  AgentState, ConversationTurn, SessionState,     *)
(*                         StateMachine                                    *)
(*   lib/tools.py          GameRetrievalTool, RetrievalEvaluationTool,     *)
(*                         WebSearchTool                                   *)
(*   lib/agents.py         VideoGameAgent.process_query                    *)
(*                                                                         *)
(* Distances are floats in the source; here they are integers in           *)
(* hundredths (0.65 is 65), and a score is the exact fraction num/den of   *)
(* hundredths, so that every comparison with a threshold is exact.         *)
(* An Optional field is <<>> (None) or <<v>> (the value v).                *)
(***************************************************************************)
EXTENDS Integers, Sequences, FiniteSets, TLC

VARIABLES session, clock, pc, frame, ret, call_log, ev_in, ev_out, obs

vars == <<session, clock, pc, frame, ret, call_log, ev_in, ev_out, obs>>

(***************************************************************************)
(* Bounds of the model.                                                    *)
(***************************************************************************)
\* process_query calls made on one session
MaxTurns == 2
\* process_query calls made on one session whose owner also calls
\* StateMachine.transition
MaxOwnerTurns == 1
\* longest distance sequence handed to the evaluator on its own
MaxLen == 2
\* seconds the wall clock may advance in a run
MaxClock == 1
\* turns already in the history of a session taken over from earlier queries
MaxHistory == 4

None == <<>>
Some(v) == <<v>>
Range(s) == {s[i] : i \in DOMAIN s}

\* activations of process_query; one is in flight at a time unless the
\* specification says otherwise
Calls == {"c1", "c2"}
\* a caller of StateMachine.transition from outside process_query
Ext == "ext"
Callers == Calls \cup {Ext}

Queries == {"q1", "q2"}

(***************************************************************************)
(* lib/state_machine.py                                                    *)
(***************************************************************************)
IDLE == "idle"
RETRIEVING == "retrieving"
EVALUATING == "evaluating"
SEARCHING_WEB == "searching_web"
PROCESSING == "processing"
COMPLETE == "complete"
ERROR == "error"

AgentState == {IDLE, RETRIEVING, EVALUATING, SEARCHING_WEB, PROCESSING, COMPLETE, ERROR}

\* ConversationTurn with "LOW" as the default of confidence
ConversationTurn_low(turn_id, query, timestamp, agent_state, reasoning) ==
    [turn_id |-> turn_id,
     query |-> query,
     timestamp |-> timestamp,
     agent_state |-> agent_state,
     retrieval_results |-> None,
     confidence |-> Some("LOW"),
     web_search_used |-> FALSE,
     final_answer |-> None,
     source |-> None,
     reasoning |-> reasoning]

\* ConversationTurn(turn_id, query, timestamp, agent_state, reasoning) with
\* the dataclass defaults for the fields not given
ConversationTurn(turn_id, query, timestamp, agent_state, reasoning) ==
    [turn_id |-> turn_id,
     query |-> query,
     timestamp |-> timestamp,
     agent_state |-> agent_state,
     retrieval_results |-> None,
     confidence |-> None,
     web_search_used |-> FALSE,
     final_answer |-> None,
     source |-> None,
     reasoning |-> reasoning]

\* SessionState(session_id, created_at) with the dataclass defaults
SessionState(session_id, created_at) ==
    [session_id |-> session_id,
     created_at |-> created_at,
     current_state |-> IDLE,
     conversation_history |-> <<>>,
     turn_count |-> 0]

\* add_turn refusing a turn whose turn_id the history already holds
add_turn_unique(s, turn) ==
    IF \E i \in DOMAIN s.conversation_history :
           s.conversation_history[i].turn_id = turn.turn_id
    THEN s
    ELSE [s EXCEPT !.conversation_history = Append(@, turn),
                   !.turn_count = @ + 1]

\* add_turn putting the turn in front of the history
add_turn_in_front(s, turn) ==
    [s EXCEPT !.conversation_history = <<turn>> \o @,
              !.turn_count = @ + 1]

\* add_turn without the increment of turn_count
add_turn_no_count(s, turn) ==
    [s EXCEPT !.conversation_history = Append(@, turn)]

\* SessionState.add_turn
add_turn(s, turn) ==
    [s EXCEPT !.conversation_history = Append(@, turn),
              !.turn_count = @ + 1]

\* SessionState.transition_state
transition_state(s, new_state) == [s EXCEPT !.current_state = new_state]

\* SessionState.reset
reset(s) == [s EXCEPT !.current_state = IDLE]

\* the table without the edge EVALUATING -> PROCESSING
VALID_TRANSITIONS_no_local ==
    (IDLE :> <<RETRIEVING>>)
    @@ (RETRIEVING :> <<EVALUATING, ERROR>>)
    @@ (EVALUATING :> <<SEARCHING_WEB, ERROR>>)
    @@ (SEARCHING_WEB :> <<PROCESSING, ERROR>>)
    @@ (PROCESSING :> <<COMPLETE, ERROR>>)
    @@ (COMPLETE :> <<IDLE>>)
    @@ (ERROR :> <<IDLE>>)

\* the table without the edge COMPLETE -> IDLE
VALID_TRANSITIONS_no_rest ==
    (IDLE :> <<RETRIEVING>>)
    @@ (RETRIEVING :> <<EVALUATING, ERROR>>)
    @@ (EVALUATING :> <<SEARCHING_WEB, PROCESSING, ERROR>>)
    @@ (SEARCHING_WEB :> <<PROCESSING, ERROR>>)
    @@ (PROCESSING :> <<COMPLETE, ERROR>>)
    @@ (COMPLETE :> <<>>)
    @@ (ERROR :> <<IDLE>>)

\* StateMachine.VALID_TRANSITIONS: a dict from a state to the list of its
\* successors
VALID_TRANSITIONS ==
    (IDLE :> <<RETRIEVING>>)
    @@ (RETRIEVING :> <<EVALUATING, ERROR>>)
    @@ (EVALUATING :> <<SEARCHING_WEB, PROCESSING, ERROR>>)
    @@ (SEARCHING_WEB :> <<PROCESSING, ERROR>>)
    @@ (PROCESSING :> <<COMPLETE, ERROR>>)
    @@ (COMPLETE :> <<IDLE>>)
    @@ (ERROR :> <<IDLE>>)

\* StateMachine.can_transition: to_state in VALID_TRANSITIONS.get(from_state, [])
can_transition(from_state, to_state) ==
    to_state \in Range(IF from_state \in DOMAIN VALID_TRANSITIONS
                       THEN VALID_TRANSITIONS[from_state]
                       ELSE <<>>)

\* transition committing the new state before the check
transition_unchecked(s, new_state) ==
    [session |-> transition_state(s, new_state),
     ret |-> can_transition(s.current_state, new_state)]

\* StateMachine.transition: the session after the call and the value returned
transition(s, new_state) ==
    IF can_transition(s.current_state, new_state)
    THEN [session |-> transition_state(s, new_state), ret |-> TRUE]
    ELSE [session |-> s, ret |-> FALSE]

\* StateMachine._generate_session_id: the id is the creation time to the
\* second
generate_session_id(now) == <<"session_", now>>

\* StateMachine.__init__ and StateMachine.reset_session build the session the
\* same way
NewSession(now) == SessionState(generate_session_id(now), now)

(***************************************************************************)
(* lib/tools.py                                                            *)
(***************************************************************************)
\* What collection.query does for one call: it raises, or it returns a dict
\* whose "documents" and "distances" are each a list holding one list per
\* query text, or are empty/None when that field is not returned.
ChromaResults(raises, documents, distances) ==
    [raises |-> raises, documents |-> documents, distances |-> distances]

\* retrieve_game without its exception handler: the fault of the query
\* leaves the call
retrieve_game_unguarded(results) ==
    IF results.raises
    THEN [raised |-> TRUE]
    ELSE [raised |-> FALSE,
          documents |-> IF results.documents # <<>> THEN results.documents[1] ELSE <<>>,
          distances |-> IF results.distances # <<>> THEN results.distances[1] ELSE <<>>]

\* GameRetrievalTool.retrieve_game: the pair returned; any exception of the
\* query is caught and becomes ([], []), so the call itself never raises
retrieve_game(results) ==
    IF results.raises
    THEN [raised |-> FALSE, documents |-> <<>>, distances |-> <<>>]
    ELSE [raised |-> FALSE,
          documents |-> IF results.documents # <<>> THEN results.documents[1] ELSE <<>>,
          distances |-> IF results.distances # <<>> THEN results.distances[1] ELSE <<>>]

HIGH_CONFIDENCE_THRESHOLD == 65
MEDIUM_CONFIDENCE_THRESHOLD == 75

Min(a, b) == IF a <= b THEN a ELSE b
Max(a, b) == IF a >= b THEN a ELSE b

\* Python's s[:n], for n of either sign
SlicePrefix(s, n) ==
    IF n >= 0 THEN SubSeq(s, 1, Min(n, Len(s)))
    ELSE SubSeq(s, 1, Max(Len(s) + n, 0))

RECURSIVE Sum(_)
Sum(s) == IF s = <<>> THEN 0 ELSE s[1] + Sum(Tail(s))

\* a score is the fraction num/den of hundredths; den # 0
Score(num, den) == [num |-> num, den |-> den]

\* the comparison with <= in place of <
ScoreLessOrEqual(score, threshold) ==
    IF score.den > 0 THEN score.num <= threshold * score.den
    ELSE score.num >= threshold * score.den

\* score < threshold, for a threshold in hundredths
ScoreLess(score, threshold) ==
    IF score.den > 0 THEN score.num < threshold * score.den
    ELSE score.num > threshold * score.den

\* f"{score:.3f}": the score in thousandths, rounded to the nearest
Fmt3(score) ==
    LET n == IF score.den > 0 THEN score.num ELSE 0 - score.num
        d == IF score.den > 0 THEN score.den ELSE 0 - score.den
    IN  IF n >= 0 THEN (20 * n + d) \div (2 * d)
        ELSE 0 - ((20 * (0 - n) + d) \div (2 * d))

\* lines 55-74 of evaluate_retrieval, for a non-empty list; raised is the
\* ZeroDivisionError of the average over zero results
evaluate_scored(distances, num_results, use_average) ==
    IF use_average /\ Min(Len(distances), num_results) = 0
    THEN [raised |-> TRUE]
    ELSE LET score == IF use_average
                      THEN Score(Sum(SlicePrefix(distances, num_results)),
                                 Min(Len(distances), num_results))
                      ELSE Score(distances[1], 1)
         IN  IF ScoreLess(score, HIGH_CONFIDENCE_THRESHOLD)
             THEN [raised |-> FALSE,
                   confidence |-> "HIGH",
                   score |-> score,
                   rationale |-> <<"Strong match found (distance: ", Fmt3(score), ")">>]
             ELSE IF ScoreLess(score, MEDIUM_CONFIDENCE_THRESHOLD)
             THEN [raised |-> FALSE,
                   confidence |-> "MEDIUM",
                   score |-> score,
                   rationale |-> <<"Moderate match found (distance: ", Fmt3(score), ")">>]
             ELSE [raised |-> FALSE,
                   confidence |-> "LOW",
                   score |-> score,
                   rationale |-> <<"Weak or no match (distance: ", Fmt3(score), ")">>]

\* evaluate_retrieval without the guard of lines 48-53: distances[0] of an
\* empty list raises
evaluate_retrieval_no_guard(distances, num_results, use_average) ==
    IF distances = <<>>
    THEN [raised |-> TRUE]
    ELSE evaluate_scored(distances, num_results, use_average)

\* RetrievalEvaluationTool.evaluate_retrieval
evaluate_retrieval(distances, num_results, use_average) ==
    IF distances = <<>>
    THEN [raised |-> FALSE,
          confidence |-> "LOW",
          score |-> Score(100, 1),
          rationale |-> <<"No results found in database">>]
    ELSE evaluate_scored(distances, num_results, use_average)

\* the defaults of evaluate_retrieval's parameters
DefaultNumResults == 3
DefaultUseAverage == FALSE

\* What TavilyClient.search does for one call: it raises, or it returns a
\* response whose "results" is a list of {content, title, ...}
TavilyResponse(raises, results) == [raises |-> raises, results |-> results]

\* WebSearchTool.game_web_search: the dict returned; any exception of the
\* search is caught and becomes a failed result, so the call never raises
game_web_search(query, response) ==
    IF response.raises
    THEN [raised |-> FALSE,
          success |-> FALSE,
          query |-> query,
          results |-> <<>>,
          error |-> Some("str(e)")]
    ELSE [raised |-> FALSE,
          success |-> TRUE,
          query |-> query,
          results |-> response.results,
          answer |-> None,
          response_time |-> None]

(***************************************************************************)
(* What the two external capabilities may answer.                          *)
(***************************************************************************)
\* collection.query: a fault; an empty collection; ranked candidates with
\* their distances, best first, one per confidence tier; and a result whose
\* documents are missing while its distances are present (retrieve_game
\* guards the two fields separately)
RetrievalOutcomes ==
    {ChromaResults(TRUE, <<>>, <<>>),
     ChromaResults(FALSE, <<<<>>>>, <<<<>>>>),
     ChromaResults(FALSE, <<<<"doc A", "doc B">>>>, <<<<40, 90>>>>),
     ChromaResults(FALSE, <<<<"doc B">>>>, <<<<70>>>>),
     ChromaResults(FALSE, <<<<"doc B", "doc A">>>>, <<<<90, 95>>>>),
     ChromaResults(FALSE, <<>>, <<<<40>>>>)}

\* TavilyClient.search: a fault; no results; ranked results
WebOutcomes ==
    {TavilyResponse(TRUE, <<>>),
     TavilyResponse(FALSE, <<>>),
     TavilyResponse(FALSE, <<[content |-> "X", title |-> "Y"],
                             [content |-> "X2", title |-> "Y2"]>>)}

(***************************************************************************)
(* lib/agents.py: VideoGameAgent.process_query, one action per stretch of  *)
(* code between two calls that touch the session or a capability.  pc[c]   *)
(* names the statement activation c runs next; frame[c] holds its locals   *)
(* (a local not yet assigned holds an empty value of its type and is not   *)
(* read); ret[c] is the value its latest transition call returned, which   *)
(* the code discards.  obs is what the latest get_context,                 *)
(* get_session_summary or reset_session call handed to its caller, kept    *)
(* until the next query starts.                                            *)
(***************************************************************************)
InitFrame ==
    [user_query |-> "",
     turn_id |-> 0,
     turn |-> ConversationTurn(0, "", 0, IDLE, <<>>),
     reasoning_log |-> <<>>,
     documents |-> <<>>,
     distances |-> <<>>,
     confidence |-> "",
     score |-> Score(0, 1),
     rationale |-> <<>>,
     final_answer |-> "",
     source |-> <<>>,
     web_search_used |-> FALSE,
     search_results |-> None,
     response |-> None]

InFlight(c) == pc[c] \notin {"idle", "raised"}

\* self.state_machine.transition(new_state), called by activation c
Transition(c, new_state) ==
    LET t == transition(session, new_state)
    IN  /\ session' = t.session
        /\ ret' = [ret EXCEPT ![c] = Some(t.ret)]

\* line 58 with MEDIUM confidence also taken as usable
use_local_result_medium(confidence, documents) ==
    confidence # "LOW" /\ documents # <<>>

\* line 58
use_local_result(confidence, documents) ==
    confidence = "HIGH" /\ documents # <<>>

\* lines 18-30
Start(c, user_query) ==
    /\ ~InFlight(c)
    /\ pc' = [pc EXCEPT ![c] = "transition_retrieving"]
    /\ frame' = [frame EXCEPT ![c] =
                    [InitFrame EXCEPT
                        !.user_query = user_query,
                        !.turn_id = session.turn_count + 1,
                        !.turn = ConversationTurn(session.turn_count + 1, user_query,
                                                  clock, IDLE, <<>>)]]
    /\ ret' = [ret EXCEPT ![c] = None]
    /\ call_log' = Append(call_log, user_query)
    /\ obs' = None
    /\ UNCHANGED <<session, clock, ev_in, ev_out>>

\* lines 32-34
TransitionRetrieving(c) ==
    /\ pc[c] = "transition_retrieving"
    /\ Transition(c, RETRIEVING)
    /\ frame' = [frame EXCEPT
                    ![c].reasoning_log = Append(@, <<"Step 1: Attempting retrieval">>),
                    ![c].turn.agent_state = RETRIEVING]
    /\ pc' = [pc EXCEPT ![c] = "retrieve"]
    /\ UNCHANGED <<clock, call_log, ev_in, ev_out, obs>>

\* lines 36-43
Retrieve(c) ==
    /\ pc[c] = "retrieve"
    /\ \E results \in RetrievalOutcomes :
         LET r == retrieve_game(results)
         IN  IF r.raised
             THEN /\ pc' = [pc EXCEPT ![c] = "raised"]
                  /\ frame' = frame
             ELSE /\ pc' = [pc EXCEPT ![c] = "transition_evaluating"]
                  /\ frame' = [frame EXCEPT
                        ![c].documents = r.documents,
                        ![c].distances = r.distances,
                        ![c].reasoning_log =
                            Append(@, <<"Retrieved candidates", Len(r.documents)>>),
                        ![c].turn.retrieval_results =
                            Some([documents |-> r.documents,
                                  distances |-> r.distances,
                                  num_results |-> Len(r.documents)])]
    /\ UNCHANGED <<session, clock, ret, call_log, ev_in, ev_out, obs>>

\* lines 45-47
TransitionEvaluating(c) ==
    /\ pc[c] = "transition_evaluating"
    /\ Transition(c, EVALUATING)
    /\ frame' = [frame EXCEPT
                    ![c].reasoning_log = Append(@, <<"Step 2: Evaluating retrieval confidence">>),
                    ![c].turn.agent_state = EVALUATING]
    /\ pc' = [pc EXCEPT ![c] = "evaluate"]
    /\ UNCHANGED <<clock, call_log, ev_in, ev_out, obs>>

\* lines 49-56
Evaluate(c) ==
    /\ pc[c] = "evaluate"
    /\ LET evaluation == evaluate_retrieval(frame[c].distances, DefaultNumResults,
                                            DefaultUseAverage)
       IN  IF evaluation.raised
           THEN /\ pc' = [pc EXCEPT ![c] = "raised"]
                /\ frame' = frame
           ELSE /\ pc' = [pc EXCEPT ![c] = "route"]
                /\ frame' = [frame EXCEPT
                      ![c].confidence = evaluation.confidence,
                      ![c].score = evaluation.score,
                      ![c].rationale = evaluation.rationale,
                      ![c].reasoning_log =
                          @ \o << <<"Confidence", evaluation.confidence,
                                    Fmt3(evaluation.score)>>,
                                  <<"Rationale", evaluation.rationale>> >>,
                      ![c].turn.confidence = Some(evaluation.confidence)]
    /\ UNCHANGED <<session, clock, ret, call_log, ev_in, ev_out, obs>>

\* lines 58-67: the local path
RouteLocal(c) ==
    /\ pc[c] = "route"
    /\ use_local_result(frame[c].confidence, frame[c].documents)
    /\ Transition(c, PROCESSING)
    /\ frame' = [frame EXCEPT
                    ![c].reasoning_log = Append(@, <<"High confidence in local results">>),
                    ![c].turn.agent_state = PROCESSING,
                    ![c].final_answer = frame[c].documents[1],
                    ![c].source = <<"Local Database">>,
                    ![c].web_search_used = FALSE]
    /\ pc' = [pc EXCEPT ![c] = "transition_complete"]
    /\ UNCHANGED <<clock, call_log, ev_in, ev_out, obs>>

\* lines 58, 68-73: the fallback path
RouteFallback(c) ==
    /\ pc[c] = "route"
    /\ ~use_local_result(frame[c].confidence, frame[c].documents)
    /\ Transition(c, SEARCHING_WEB)
    /\ frame' = [frame EXCEPT
                    ![c].reasoning_log =
                        @ \o << <<"Low/Medium confidence - Initiating web search fallback">>,
                                <<"Step 3: Searching the web">> >>,
                    ![c].turn.agent_state = SEARCHING_WEB]
    /\ pc' = [pc EXCEPT ![c] = "web_search"]
    /\ UNCHANGED <<clock, call_log, ev_in, ev_out, obs>>

\* lines 77-86 with web_search_used set whenever the search itself succeeded
web_answer_flag_on_success(search_results) ==
    IF search_results.success /\ search_results.results # <<>>
    THEN [final_answer |-> search_results.results[1].content,
          source |-> <<"Web Search (Tavily) - ", search_results.results[1].title>>,
          web_search_used |-> TRUE,
          log |-> <<"Found web result", search_results.results[1].title>>]
    ELSE [final_answer |-> "No information found in local database or web search.",
          source |-> <<"No Source">>,
          web_search_used |-> search_results.success,
          log |-> <<"No results found in web search">>]

\* lines 77-86 with the answer left empty when the search gives nothing
web_answer_no_sentinel(search_results) ==
    IF search_results.success /\ search_results.results # <<>>
    THEN [final_answer |-> search_results.results[1].content,
          source |-> <<"Web Search (Tavily) - ", search_results.results[1].title>>,
          web_search_used |-> TRUE,
          log |-> <<"Found web result", search_results.results[1].title>>]
    ELSE [final_answer |-> "",
          source |-> <<"No Source">>,
          web_search_used |-> FALSE,
          log |-> <<"No results found in web search">>]

\* lines 77-86: the answer taken from the search result
web_answer(search_results) ==
    IF search_results.success /\ search_results.results # <<>>
    THEN [final_answer |-> search_results.results[1].content,
          source |-> <<"Web Search (Tavily) - ", search_results.results[1].title>>,
          web_search_used |-> TRUE,
          log |-> <<"Found web result", search_results.results[1].title>>]
    ELSE [final_answer |-> "No information found in local database or web search.",
          source |-> <<"No Source">>,
          web_search_used |-> FALSE,
          log |-> <<"No results found in web search">>]

\* lines 75-86
WebSearch(c) ==
    /\ pc[c] = "web_search"
    /\ \E response \in WebOutcomes :
         LET search_results == game_web_search(frame[c].user_query, response)
             a == web_answer(search_results)
         IN  IF search_results.raised
             THEN /\ pc' = [pc EXCEPT ![c] = "raised"]
                  /\ frame' = frame
             ELSE /\ pc' = [pc EXCEPT ![c] = "transition_processing"]
                  /\ frame' = [frame EXCEPT
                        ![c].search_results = Some(search_results),
                        ![c].final_answer = a.final_answer,
                        ![c].source = a.source,
                        ![c].web_search_used = a.web_search_used,
                        ![c].reasoning_log = Append(@, a.log)]
    /\ UNCHANGED <<session, clock, ret, call_log, ev_in, ev_out, obs>>

\* lines 88-89 with ERROR requested when the web search failed
TransitionProcessingOrError(c) ==
    LET new_state == IF frame[c].search_results[1].success THEN PROCESSING ELSE ERROR
    IN  /\ pc[c] = "transition_processing"
        /\ Transition(c, new_state)
        /\ frame' = [frame EXCEPT ![c].turn.agent_state = new_state]
        /\ pc' = [pc EXCEPT ![c] = "transition_complete"]
        /\ UNCHANGED <<clock, call_log, ev_in, ev_out, obs>>

\* lines 88-89
TransitionProcessing(c) ==
    /\ pc[c] = "transition_processing"
    /\ Transition(c, PROCESSING)
    /\ frame' = [frame EXCEPT ![c].turn.agent_state = PROCESSING]
    /\ pc' = [pc EXCEPT ![c] = "transition_complete"]
    /\ UNCHANGED <<clock, call_log, ev_in, ev_out, obs>>

\* lines 91-96
TransitionComplete(c) ==
    /\ pc[c] = "transition_complete"
    /\ Transition(c, COMPLETE)
    /\ frame' = [frame EXCEPT
                    ![c].turn.agent_state = COMPLETE,
                    ![c].turn.final_answer = Some(frame[c].final_answer),
                    ![c].turn.source = Some(frame[c].source),
                    ![c].turn.web_search_used = frame[c].web_search_used,
                    ![c].turn.reasoning = frame[c].reasoning_log]
    /\ pc' = [pc EXCEPT ![c] = "add_turn"]
    /\ UNCHANGED <<clock, call_log, ev_in, ev_out, obs>>

\* line 98
AddTurn(c) ==
    /\ pc[c] = "add_turn"
    /\ session' = add_turn(session, frame[c].turn)
    /\ pc' = [pc EXCEPT ![c] = "respond"]
    /\ UNCHANGED <<clock, frame, ret, call_log, ev_in, ev_out, obs>>

\* lines 100-112: the response dict
Response(f) ==
    [turn_id |-> f.turn_id,
     query |-> f.user_query,
     answer |-> f.final_answer,
     confidence |-> f.confidence,
     source |-> f.source,
     web_search_used |-> f.web_search_used,
     reasoning |-> f.turn.reasoning,
     retrieval_details |->
        [num_candidates_found |-> Len(f.documents),
         best_score |-> IF f.distances # <<>> THEN Some(f.score) ELSE None]]

\* lines 100-112
Respond(c) ==
    /\ pc[c] = "respond"
    /\ frame' = [frame EXCEPT ![c].response = Some(Response(frame[c]))]
    /\ pc' = [pc EXCEPT ![c] = "transition_idle"]
    /\ UNCHANGED <<session, clock, ret, call_log, ev_in, ev_out, obs>>

\* lines 114-116: the call returns frame[c].response
TransitionIdle(c) ==
    /\ pc[c] = "transition_idle"
    /\ Transition(c, IDLE)
    /\ pc' = [pc EXCEPT ![c] = "idle"]
    /\ UNCHANGED <<clock, frame, call_log, ev_in, ev_out, obs>>

\* one step of activation c of process_query
Step(c) ==
    \/ TransitionRetrieving(c)
    \/ Retrieve(c)
    \/ TransitionEvaluating(c)
    \/ Evaluate(c)
    \/ RouteLocal(c)
    \/ RouteFallback(c)
    \/ WebSearch(c)
    \/ TransitionProcessing(c)
    \/ TransitionComplete(c)
    \/ AddTurn(c)
    \/ Respond(c)
    \/ TransitionIdle(c)

NoneInFlight == \A c \in Calls : ~InFlight(c)

\* process_query is called while no other call is running
SeqStart ==
    \E q \in Queries : NoneInFlight /\ Len(call_log) < MaxTurns /\ Start("c1", q)

\* the same, on a session whose owner also calls StateMachine.transition
OwnerStart ==
    \E q \in Queries : NoneInFlight /\ Len(call_log) < MaxOwnerTurns /\ Start("c1", q)

\* where an activation may be suspended and another one run: at the
\* retrieval call (line 36) and at the web-search call (line 75)
SwitchPoints == {"retrieve", "web_search"}

\* activation c may run: every other activation is suspended or not running
MayRun(c) ==
    \A d \in Calls \ {c} : ~InFlight(d) \/ pc[d] \in SwitchPoints

\* process_query is called, once by each caller, while the other caller's
\* call may be suspended
ConcStart(c, user_query) ==
    /\ MayRun(c)
    /\ frame[c] = InitFrame
    /\ Start(c, user_query)

\* the next statement of activation c, nothing in the code holding it back
\* while another call is suspended
ConcStep(c) == MayRun(c) /\ Step(c)

\* reset_session done in place with SessionState.reset: the same object
\* stays the session
reset_session_in_place(s, now) ==
    [session |-> [s EXCEPT !.current_state = IDLE], replaced |-> s]

\* StateMachine.reset_session: the session of the state machine after the
\* call, and the replaced session object as the call leaves it
reset_session(s, now) ==
    [session |-> NewSession(now), replaced |-> s]

\* StateMachine.reset_session, called between two queries
ResetSession ==
    /\ NoneInFlight
    /\ LET r == reset_session(session, clock)
       IN  /\ session' = r.session
           /\ obs' = Some([op |-> "reset_session", replaced |-> r.replaced])
    /\ call_log' = <<>>
    /\ UNCHANGED <<clock, pc, frame, ret, ev_in, ev_out>>

\* the wall clock read by datetime.now() moves on by one second
Tick ==
    /\ clock < MaxClock
    /\ clock' = clock + 1
    /\ UNCHANGED <<session, pc, frame, ret, call_log, ev_in, ev_out, obs>>

\* StateMachine.transition, called between two queries by the owner of the agent
ExtTransition(new_state) ==
    /\ NoneInFlight
    /\ Transition(Ext, new_state)
    /\ UNCHANGED <<clock, pc, frame, call_log, ev_in, ev_out, obs>>

\* session.transition_state, called between two queries by the owner of the
\* agent on the session that get_session_state hands out
SessionTransitionState(new_state) ==
    /\ NoneInFlight
    /\ session' = transition_state(session, new_state)
    /\ UNCHANGED <<clock, pc, frame, ret, call_log, ev_in, ev_out, obs>>

\* session.reset, called the same way
SessionReset ==
    /\ NoneInFlight
    /\ session' = reset(session)
    /\ UNCHANGED <<clock, pc, frame, ret, call_log, ev_in, ev_out, obs>>

(***************************************************************************)
(* The read-only views of the session.  A string built line by line is the *)
(* sequence of its lines.  Each operator gives the session as the call     *)
(* leaves it and the value returned.                                       *)
(***************************************************************************)
\* the 3 of conversation_history[-3:]
ContextWindow == 3

\* Python's s[:n] for n > 0: the wrong end of the history
SliceFirst(s, n) == SubSeq(s, 1, Min(n, Len(s)))

\* Python's s[-n:] for n > 0
SliceLast(s, n) == SubSeq(s, Max(Len(s) - n, 0) + 1, Len(s))

\* lines 49-51: the lines one turn adds to the context; an answer that is
\* None or empty adds none
ContextLines(turn) ==
    << <<"Turn", turn.turn_id, turn.query>> >>
    \o (IF turn.final_answer # None /\ turn.final_answer[1] # ""
        THEN << <<"Answer", turn.final_answer[1]>> >>
        ELSE <<>>)

\* lines 48-51: the loop over the turns of the window
RECURSIVE ContextOf(_)
ContextOf(turns) ==
    IF turns = <<>> THEN <<>>
    ELSE ContextLines(Head(turns)) \o ContextOf(Tail(turns))

\* get_context consuming the turns it reports
get_context_consuming(s) ==
    IF s.conversation_history = <<>>
    THEN [session |-> s, value |-> << <<"No previous conversation history.">> >>]
    ELSE [session |-> [s EXCEPT !.conversation_history =
                          SubSeq(@, 1, Max(Len(@) - ContextWindow, 0))],
          value |-> << <<"Previous conversation turns:">> >>
                    \o ContextOf(SliceLast(s.conversation_history, ContextWindow))]

\* SessionState.get_context
get_context(s) ==
    IF s.conversation_history = <<>>
    THEN [session |-> s, value |-> << <<"No previous conversation history.">> >>]
    ELSE [session |-> s,
          value |-> << <<"Previous conversation turns:">> >>
                    \o ContextOf(SliceLast(s.conversation_history, ContextWindow))]

\* VideoGameAgent.get_session_summary
get_session_summary(s) ==
    [session |-> s,
     value |-> [session_id |-> s.session_id,
                created_at |-> s.created_at,
                turns_completed |-> s.turn_count,
                conversation_history |->
                    [i \in DOMAIN s.conversation_history |->
                        [turn_id |-> s.conversation_history[i].turn_id,
                         query |-> s.conversation_history[i].query,
                         source |-> s.conversation_history[i].source,
                         web_search_used |-> s.conversation_history[i].web_search_used]]]]

\* session.get_context(), called between two queries
GetContext ==
    /\ NoneInFlight
    /\ LET r == get_context(session)
       IN  /\ session' = r.session
           /\ obs' = Some([op |-> "get_context", value |-> r.value])
    /\ UNCHANGED <<clock, pc, frame, ret, call_log, ev_in, ev_out>>

\* agent.get_session_summary(), called between two queries
GetSessionSummary ==
    /\ NoneInFlight
    /\ LET r == get_session_summary(session)
       IN  /\ session' = r.session
           /\ obs' = Some([op |-> "get_session_summary", value |-> r.value])
    /\ UNCHANGED <<clock, pc, frame, ret, call_log, ev_in, ev_out>>

(***************************************************************************)
(* The evaluator on its own: evaluate_retrieval applied to an input drawn  *)
(* from bounded sets.                                                      *)
(***************************************************************************)
DistValues == {40, 64, 65, 70, 74, 75, 90}

RECURSIVE SeqsUpTo(_, _)
SeqsUpTo(S, n) ==
    IF n = 0 THEN {<<>>}
    ELSE LET shorter == SeqsUpTo(S, n - 1)
         IN  shorter \cup {Append(s, x) : s \in shorter, x \in S}

EvalInputs ==
    [distances : SeqsUpTo(DistValues, MaxLen),
     num_results : -1 .. (MaxLen + 1),
     use_average : BOOLEAN]

NoEvalInput == [distances |-> <<>>, num_results |-> DefaultNumResults,
                use_average |-> DefaultUseAverage]

EvaluateCall ==
    /\ ev_out = None
    /\ ev_out' = Some(evaluate_retrieval(ev_in.distances, ev_in.num_results,
                                         ev_in.use_average))
    /\ UNCHANGED <<session, clock, pc, frame, ret, call_log, ev_in, obs>>

(***************************************************************************)
(* Specifications.                                                         *)
(***************************************************************************)
InitAgent ==
    /\ clock = 0
    /\ session = NewSession(clock)
    /\ pc = [c \in Calls |-> "idle"]
    /\ frame = [c \in Calls |-> InitFrame]
    /\ ret = [c \in Callers |-> None]
    /\ call_log = <<>>
    /\ obs = None

Init ==
    /\ InitAgent
    /\ ev_in = NoEvalInput
    /\ ev_out = None

\* sequential queries on one agent, with session resets between them
Next ==
    \/ SeqStart
    \/ \E c \in Calls : Step(c)
    \/ ResetSession

Spec == Init /\ [][Next]_vars

\* the same, with the owner also calling StateMachine.transition between queries
NextSM ==
    \/ OwnerStart
    \/ \E c \in Calls : Step(c)
    \/ ResetSession
    \/ \E new_state \in AgentState : ExtTransition(new_state)

SpecSM == Init /\ [][NextSM]_vars

\* the public operations on one session: process_query, transition, and the
\* two setters of SessionState
NextPublic ==
    \/ OwnerStart
    \/ \E c \in Calls : Step(c)
    \/ \E new_state \in AgentState : ExtTransition(new_state)
    \/ \E new_state \in AgentState : SessionTransitionState(new_state)
    \/ SessionReset

SpecPublic == Init /\ [][NextPublic]_vars

\* queries and resets on a wall clock that moves
NextClock ==
    \/ OwnerStart
    \/ \E c \in Calls : Step(c)
    \/ ResetSession
    \/ Tick

SpecClock == Init /\ [][NextClock]_vars

\* two callers of process_query on one session, switching at the retrieval
\* and web-search calls
NextConc ==
    \/ \E c \in Calls, q \in Queries : ConcStart(c, q)
    \/ \E c \in Calls : ConcStep(c)

SpecConc == Init /\ [][NextConc]_vars

\* process_query is synchronous: once called, its next statement runs (each
\* capability call returns or raises)
FairSpec == Init /\ [][Next]_vars /\ \A c \in Calls : WF_vars(Step(c))

\* sequential queries on one session, with the read-only views called
\* between them
NextObs ==
    \/ SeqStart
    \/ \E c \in Calls : Step(c)
    \/ GetContext
    \/ GetSessionSummary

SpecObs == Init /\ [][NextObs]_vars

\* lines 28-96: the turn that process_query appends when the retriever
\* answers results and, on the fallback path, the web search answers response
CompletedTurn(turn_id, query, timestamp, results, response) ==
    LET r == retrieve_game(results)
        evaluation == evaluate_retrieval(r.distances, DefaultNumResults,
                                         DefaultUseAverage)
        a == web_answer(game_web_search(query, response))
        local == use_local_result(evaluation.confidence, r.documents)
        log == << <<"Step 1: Attempting retrieval">>,
                  <<"Retrieved candidates", Len(r.documents)>>,
                  <<"Step 2: Evaluating retrieval confidence">>,
                  <<"Confidence", evaluation.confidence, Fmt3(evaluation.score)>>,
                  <<"Rationale", evaluation.rationale>> >>
               \o (IF local
                   THEN << <<"High confidence in local results">> >>
                   ELSE << <<"Low/Medium confidence - Initiating web search fallback">>,
                           <<"Step 3: Searching the web">>,
                           a.log >>)
    IN  [ConversationTurn(turn_id, query, timestamp, COMPLETE, log) EXCEPT
            !.retrieval_results = Some([documents |-> r.documents,
                                        distances |-> r.distances,
                                        num_results |-> Len(r.documents)]),
            !.confidence = Some(evaluation.confidence),
            !.web_search_used = IF local THEN FALSE ELSE a.web_search_used,
            !.final_answer = Some(IF local THEN r.documents[1] ELSE a.final_answer),
            !.source = Some(IF local THEN <<"Local Database">> ELSE a.source)]

\* the queries answered before the run starts: one answered locally, one
\* from the web, one with nothing found
EarlierQueries ==
    {[query |-> "q1",
      results |-> ChromaResults(FALSE, <<<<"doc A", "doc B">>>>, <<<<40, 90>>>>),
      response |-> TavilyResponse(FALSE, <<>>)],
     [query |-> "q2",
      results |-> ChromaResults(FALSE, <<<<>>>>, <<<<>>>>),
      response |-> TavilyResponse(FALSE, <<[content |-> "X", title |-> "Y"],
                                           [content |-> "X2", title |-> "Y2"]>>)],
     [query |-> "q1",
      results |-> ChromaResults(FALSE, <<<<"doc B">>>>, <<<<70>>>>),
      response |-> TavilyResponse(FALSE, <<>>)]}

\* the session after the sequential calls process_query(e[1].query), ...,
\* process_query(e[n].query) on a fresh session
SessionAfter(e, now) ==
    [NewSession(now) EXCEPT
        !.conversation_history =
            [i \in 1..Len(e) |->
                CompletedTurn(i, e[i].query, now, e[i].results, e[i].response)],
        !.turn_count = Len(e)]

\* an agent whose session already holds up to MaxHistory completed turns
InitCtx ==
    /\ clock = 0
    /\ \E n \in 0..MaxHistory :
         \E e \in [1..n -> EarlierQueries] : session = SessionAfter(e, clock)
    /\ pc = [c \in Calls |-> "idle"]
    /\ frame = [c \in Calls |-> InitFrame]
    /\ ret = [c \in Callers |-> None]
    /\ call_log = <<>>
    /\ obs = None
    /\ ev_in = NoEvalInput
    /\ ev_out = None

\* one further process_query call on that session
CtxStart ==
    \E q \in Queries : NoneInFlight /\ call_log = <<>> /\ Start("c1", q)

\* the further query and the read-only views, on a session with a history
NextCtx ==
    \/ CtxStart
    \/ \E c \in Calls : Step(c)
    \/ GetContext
    \/ GetSessionSummary

SpecCtx == InitCtx /\ [][NextCtx]_vars

\* the evaluator on its own
InitEval ==
    /\ InitAgent
    /\ ev_in \in EvalInputs
    /\ ev_out = None

SpecEval == InitEval /\ [][EvaluateCall]_vars

(***************************************************************************)
(* Claims.                                                                 *)
(***************************************************************************)
\* the activation has taken the routing decision of line 58-60
Routed(c) ==
    \/ pc[c] \in {"web_search", "transition_processing", "transition_complete",
                  "add_turn", "respond", "transition_idle"}
    \/ pc[c] = "idle" /\ frame[c].response # None

\* the activation has returned a response
Returned(c) == pc[c] = "idle" /\ frame[c].response # None

\* the web search has been called, or is the next statement
OnFallbackPath(c) == pc[c] = "web_search" \/ frame[c].search_results # None

\* C1: the local answer (best-ranked document, web_search_used false, no web
\* search call) is chosen iff the confidence is HIGH and the documents are
\* non-empty; every other combination goes through SEARCHING_WEB and calls
\* the web search.
C1_LocalIffHighAndDocuments ==
    \A c \in Calls :
        Routed(c) =>
            IF frame[c].confidence = "HIGH" /\ Len(frame[c].documents) > 0
            THEN /\ ~OnFallbackPath(c)
                 /\ frame[c].final_answer = frame[c].documents[1]
                 /\ frame[c].web_search_used = FALSE
                 /\ \A i \in DOMAIN frame[c].reasoning_log :
                        frame[c].reasoning_log[i][1] # "Step 3: Searching the web"
            ELSE /\ OnFallbackPath(c)
                 /\ pc[c] = "web_search" => session.current_state = SEARCHING_WEB
                 /\ \E i \in DOMAIN frame[c].reasoning_log :
                        frame[c].reasoning_log[i][1] = "Step 3: Searching the web"

\* a HIGH score with zero documents has gone to the web search
C1_Witness ==
    \E c \in Calls :
        /\ Returned(c)
        /\ frame[c].confidence = "HIGH"
        /\ frame[c].documents = <<>>
        /\ frame[c].search_results # None

\* the edges of the transition table, as the claim lists them
C2_Table ==
    {<<IDLE, RETRIEVING>>,
     <<RETRIEVING, EVALUATING>>, <<RETRIEVING, ERROR>>,
     <<EVALUATING, SEARCHING_WEB>>, <<EVALUATING, PROCESSING>>, <<EVALUATING, ERROR>>,
     <<SEARCHING_WEB, PROCESSING>>, <<SEARCHING_WEB, ERROR>>,
     <<PROCESSING, COMPLETE>>, <<PROCESSING, ERROR>>,
     <<COMPLETE, IDLE>>,
     <<ERROR, IDLE>>}

\* C2: from every current state s and for every target t, transition(t)
\* returns true and sets current_state = t exactly when (s, t) is an edge of
\* the table; otherwise it returns false and leaves the session unchanged.
C2_TransitionFollowsTable ==
    [][\A t \in AgentState :
          ExtTransition(t) =>
              IF <<session.current_state, t>> \in C2_Table
              THEN session'.current_state = t /\ ret'[Ext] = Some(TRUE)
              ELSE session' = session /\ ret'[Ext] = Some(FALSE)]_vars

\* a transition out of IDLE has been rejected on a fresh session
C2_Witness ==
    /\ ret[Ext] = Some(FALSE)
    /\ session.current_state = IDLE
    /\ session.turn_count = 0

\* the activation has not yet run line 98
BeforeAppend(c) ==
    pc[c] \in {"transition_retrieving", "retrieve", "transition_evaluating",
               "evaluate", "route", "web_search", "transition_processing",
               "transition_complete", "add_turn"}

\* C3: after k sequential calls of process_query on a fresh session,
\* turn_count = k, the history holds k turns in call order with the turn ids
\* 1..k, and each call appends exactly once (a call in flight has appended
\* nothing before line 98 and one turn after it).
C3_LedgerCountsCalls ==
    LET h == session.conversation_history
        k == Len(call_log)
        pending == Cardinality({c \in Calls : BeforeAppend(c)})
    IN  /\ Len(h) = k - pending
        /\ session.turn_count = k - pending
        /\ \A i \in DOMAIN h : h[i].turn_id = i /\ h[i].query = call_log[i]

\* MaxTurns calls have returned
C3_Witness ==
    /\ NoneInFlight
    /\ Len(call_log) = MaxTurns
    /\ session.turn_count = MaxTurns
    /\ Len(session.conversation_history) = MaxTurns

\* C4: whenever no process_query call is running the machine is in IDLE, so
\* every call finds it in IDLE when it starts, on either path and whatever
\* the web search answered.
C4_IdleBetweenQueries ==
    /\ NoneInFlight => session.current_state = IDLE
    /\ \A c \in Calls :
          pc[c] = "transition_retrieving" => session.current_state = IDLE

\* the second call has returned from the fallback path with a failed search
C4_Witness ==
    \E c \in Calls :
        /\ Returned(c)
        /\ NoneInFlight
        /\ frame[c].turn_id = 2
        /\ frame[c].search_results # None
        /\ ~frame[c].search_results[1].success
        /\ session.current_state = IDLE

\* C5: when a transition requested by process_query is rejected, the call
\* does not go on with the pipeline: its next step leaves the machine in
\* ERROR or back in IDLE.
C5_RejectedTransitionAborts ==
    [][\A c \in Calls :
          (InFlight(c) /\ ret[c] = Some(FALSE) /\ pc'[c] # pc[c]) =>
              session'.current_state \in {ERROR, IDLE}]_vars

\* the phases before COMPLETE
C6_EarlyPhases == {IDLE, RETRIEVING, EVALUATING, SEARCHING_WEB, PROCESSING}

\* C6 as stated: final_answer, source and confidence of a turn in flight are
\* all unset while its phase is before COMPLETE.
C6_AllUnsetBeforeComplete ==
    \A c \in Calls :
        (InFlight(c) /\ frame[c].turn.agent_state \in C6_EarlyPhases) =>
            /\ frame[c].turn.final_answer = None
            /\ frame[c].turn.source = None
            /\ frame[c].turn.confidence = None

\* C6 amended: final_answer and source of a turn in flight are unset while
\* its phase is before COMPLETE; confidence is unset until the evaluator has
\* run (phases IDLE and RETRIEVING, and EVALUATING up to line 56) and set
\* from then on; a field once set is not changed by the rest of the call, and
\* a turn in the history is not changed by any later step.
C6_UnsetUntilSetThenFixed ==
    /\ [](\A c \in Calls :
            InFlight(c) =>
              /\ frame[c].turn.agent_state \in C6_EarlyPhases =>
                    /\ frame[c].turn.final_answer = None
                    /\ frame[c].turn.source = None
              /\ frame[c].turn.agent_state \in {IDLE, RETRIEVING} =>
                    frame[c].turn.confidence = None
              /\ pc[c] = "evaluate" => frame[c].turn.confidence = None
              /\ pc[c] \in {"route", "web_search", "transition_processing",
                            "transition_complete"} =>
                    frame[c].turn.confidence # None)
    /\ [][/\ \A c \in Calls :
               InFlight(c) =>
                 /\ frame[c].turn.confidence # None =>
                       frame'[c].turn.confidence = frame[c].turn.confidence
                 /\ frame[c].turn.final_answer # None =>
                       frame'[c].turn.final_answer = frame[c].turn.final_answer
                 /\ frame[c].turn.source # None =>
                       frame'[c].turn.source = frame[c].turn.source
          /\ \A i \in DOMAIN session.conversation_history :
               i \in DOMAIN session'.conversation_history =>
                 session'.conversation_history[i] = session.conversation_history[i]]_vars

\* the confidence is on the turn while its phase is still EVALUATING
C6_Witness ==
    \E c \in Calls :
        /\ pc[c] = "route"
        /\ frame[c].turn.agent_state = EVALUATING
        /\ frame[c].turn.confidence = Some("HIGH")
        /\ frame[c].turn.final_answer = None
        /\ frame[c].turn.source = None

\* a response with every field of the payload filled in
C7_WellFormed(r) ==
    /\ r.turn_id >= 1
    /\ r.query \in Queries
    /\ r.answer # ""
    /\ r.confidence \in {"HIGH", "MEDIUM", "LOW"}
    /\ r.source # <<>>
    /\ r.web_search_used \in BOOLEAN
    /\ r.reasoning # <<>>
    /\ r.retrieval_details.num_candidates_found >= 0
    /\ Len(r.retrieval_details.best_score) <= 1

\* C7: every process_query call started from IDLE returns a well-formed
\* response, with its turn appended while the machine is in COMPLETE,
\* whatever the retriever and the web search do (candidates, nothing, or a
\* fault); no call ends by a propagated fault and none stays in flight.
C7_AlwaysFinishesTheTurn ==
    /\ [](\A c \in Calls :
            /\ pc[c] # "raised"
            /\ Returned(c) => C7_WellFormed(frame[c].response[1])
            /\ pc[c] \in {"respond", "transition_idle"} =>
                  /\ frame[c].turn_id \in DOMAIN session.conversation_history
                  /\ session.conversation_history[frame[c].turn_id] = frame[c].turn
                  /\ frame[c].turn.agent_state = COMPLETE)
    /\ [][Len(session'.conversation_history) > Len(session.conversation_history) =>
              session.current_state = COMPLETE]_vars
    /\ \A c \in Calls :
          (pc[c] = "transition_retrieving" /\ session.current_state = IDLE)
              ~> Returned(c)

\* a call has returned after the retriever gave nothing and the web search
\* faulted
C7_Witness ==
    \E c \in Calls :
        /\ Returned(c)
        /\ frame[c].documents = <<>>
        /\ frame[c].distances = <<>>
        /\ frame[c].search_results # None
        /\ ~frame[c].search_results[1].success
        /\ frame[c].response[1].answer =
              "No information found in local database or web search."

\* the least element of a non-empty sequence of distances
C8_MinOf(d) == CHOOSE m \in Range(d) : \A x \in Range(d) : m <= x

\* the tier the claim assigns to a best distance, in hundredths
C8_Tier(best) ==
    IF best < 65 THEN "HIGH" ELSE IF best < 75 THEN "MEDIUM" ELSE "LOW"

\* the evaluator has been applied to a non-empty sequence with use_average
\* false
C8_Case ==
    /\ ev_out # None
    /\ ev_in.distances # <<>>
    /\ ~ev_in.use_average

\* ordered best-first, as the retriever returns its distances
C8_BestFirst(d) == \A i \in 1 .. (Len(d) - 1) : d[i] <= d[i + 1]

\* C8 as stated: for every non-empty d evaluated with use_average false, the
\* confidence is the tier of min(d), also for d not ordered best-first.
C8_TierOfMinimum ==
    C8_Case => ev_out[1].confidence = C8_Tier(C8_MinOf(ev_in.distances))

\* C8 amended: for every non-empty d evaluated with use_average false, the
\* confidence is the tier of the first distance d[0] (HIGH below 0.65, MEDIUM
\* from 0.65 and below 0.75, LOW from 0.75), which is the tier of min(d)
\* whenever d is ordered best-first.
C8_TierOfFirst ==
    C8_Case =>
        /\ ~ev_out[1].raised
        /\ ev_out[1].confidence = C8_Tier(ev_in.distances[1])
        /\ ev_out[1].score = Score(ev_in.distances[1], 1)
        /\ C8_BestFirst(ev_in.distances) =>
              ev_out[1].confidence = C8_Tier(C8_MinOf(ev_in.distances))

\* a sequence whose first distance is exactly the HIGH threshold has been
\* evaluated MEDIUM, best-first
C8_Witness ==
    /\ C8_Case
    /\ ev_in.distances = <<65, 90>>
    /\ ev_out[1].confidence = "MEDIUM"

\* C9: for an empty distance sequence evaluate_retrieval returns LOW and the
\* score 1.0, for either value of use_average and any num_results, and a
\* process_query whose retrieval gave no distances has that evaluation, is
\* on the fallback path and reports best_score as absent.
C9_EmptyDistancesAreLow ==
    /\ \A n \in -1 .. (MaxLen + 1), ua \in BOOLEAN :
          LET e == evaluate_retrieval(<<>>, n, ua)
          IN  /\ ~e.raised
              /\ e.confidence = "LOW"
              /\ e.score = Score(100, 1)
    /\ \A c \in Calls :
          /\ pc[c] # "raised"
          /\ ((pc[c] = "route" \/ Routed(c)) /\ frame[c].distances = <<>>) =>
                /\ frame[c].confidence = "LOW"
                /\ frame[c].score = Score(100, 1)
                /\ frame[c].turn.confidence = Some("LOW")
                /\ Routed(c) => OnFallbackPath(c)
                /\ frame[c].response # None =>
                      /\ frame[c].response[1].confidence = "LOW"
                      /\ frame[c].response[1].retrieval_details.best_score = None

\* a call whose retrieval gave no distances has returned from the fallback
\* path with best_score absent
C9_Witness ==
    \E c \in Calls :
        /\ Returned(c)
        /\ frame[c].distances = <<>>
        /\ frame[c].search_results # None
        /\ frame[c].response[1].confidence = "LOW"
        /\ frame[c].response[1].retrieval_details.best_score = None

\* the web search of the activation succeeded with at least one result
C10_SearchGaveResult(c) ==
    /\ frame[c].search_results # None
    /\ frame[c].search_results[1].success
    /\ Len(frame[c].search_results[1].results) > 0

\* C10: when the web search reports success with at least one result, the
\* final answer is the top result's content, the source contains the top
\* result's title and web_search_used is true; web_search_used is true in
\* the turn and in the response in this case only.
C10_WebAnswerIsTopResult ==
    \A c \in Calls :
        LET f == frame[c]
            top == f.search_results[1].results[1]
        IN  /\ (pc[c] \in {"transition_processing", "transition_complete", "add_turn",
                           "respond", "transition_idle"} \/ Returned(c)) =>
                  /\ f.web_search_used = C10_SearchGaveResult(c)
                  /\ C10_SearchGaveResult(c) =>
                        /\ f.final_answer = top.content
                        /\ top.title \in Range(f.source)
            /\ (pc[c] \in {"add_turn", "respond", "transition_idle"} \/ Returned(c)) =>
                  /\ f.turn.web_search_used = C10_SearchGaveResult(c)
                  /\ C10_SearchGaveResult(c) =>
                        /\ f.turn.final_answer = Some(top.content)
                        /\ top.title \in Range(f.turn.source[1])
            /\ f.response # None =>
                  /\ f.response[1].web_search_used = C10_SearchGaveResult(c)
                  /\ C10_SearchGaveResult(c) =>
                        /\ f.response[1].answer = top.content
                        /\ top.title \in Range(f.response[1].source)

\* a call has returned the top web result "X" titled "Y"
C10_Witness ==
    \E c \in Calls :
        /\ Returned(c)
        /\ C10_SearchGaveResult(c)
        /\ frame[c].response[1].web_search_used
        /\ frame[c].response[1].answer = "X"
        /\ "Y" \in Range(frame[c].response[1].source)
        /\ session.conversation_history[frame[c].turn_id].web_search_used

\* the web search of the activation has been made and failed or gave nothing
C11_SearchGaveNothing(c) ==
    /\ frame[c].search_results # None
    /\ ~C10_SearchGaveResult(c)

\* the machine goes SEARCHING_WEB -> PROCESSING -> COMPLETE after a search
\* that gave nothing, and the locals, the turn and the response carry the
\* sentinel answer, the given source, web_search_used false and the tier
\* the evaluator gave
C11_NotFound(c, source) ==
    LET f == frame[c]
        tier == evaluate_retrieval(f.distances, DefaultNumResults,
                                   DefaultUseAverage).confidence
    IN  /\ f.final_answer = "No information found in local database or web search."
        /\ f.source = source
        /\ f.web_search_used = FALSE
        /\ f.confidence = tier
        /\ f.turn.confidence = Some(tier)
        /\ pc[c] = "transition_processing" => session.current_state = SEARCHING_WEB
        /\ pc[c] = "transition_complete" => session.current_state = PROCESSING
        /\ pc[c] \in {"add_turn", "respond", "transition_idle"} =>
              /\ session.current_state = COMPLETE
              /\ f.turn.final_answer = Some(f.final_answer)
              /\ f.turn.source = Some(source)
              /\ f.turn.web_search_used = FALSE
        /\ f.response # None =>
              /\ f.response[1].answer = f.final_answer
              /\ f.response[1].source = source
              /\ f.response[1].web_search_used = FALSE
              /\ f.response[1].confidence = tier

C12_ViewsDoNotMutate ==
    [][(GetContext \/ GetSessionSummary) =>
          /\ session' = session
          /\ (obs # None /\ obs[1].op = obs'[1].op) => obs' = obs]_vars

\* get_context has been called on a session of MaxTurns turns and the
\* session still holds them
C12_Witness ==
    /\ obs # None
    /\ obs[1].op = "get_context"
    /\ Len(obs[1].value) > MaxTurns
    /\ Len(session.conversation_history) = MaxTurns
    /\ session.turn_count = MaxTurns

\* C13: under any sequence of the public operations on a session
\* (transition, process_query, SessionState.transition_state,
\* SessionState.reset), every change of the session's current_state follows
\* an edge of the transition table.
C13_EveryChangeFollowsTable ==
    [][session'.current_state # session.current_state =>
          <<session.current_state, session'.current_state>> \in C2_Table]_vars

\* C14: reset_session after any number of completed turns replaces the
\* session with a fresh one (turn_count = 0, empty history, current_state =
\* IDLE), so the process_query that follows it is allocated turn_id 1; the
\* replaced session, its history included, is left as it was.
C14_ResetGivesFreshSession ==
    [][/\ ResetSession =>
            /\ session'.turn_count = 0
            /\ session'.conversation_history = <<>>
            /\ session'.current_state = IDLE
            /\ obs'[1].replaced = session
       /\ \A c \in Calls, q \in Queries :
            (obs # None /\ obs[1].op = "reset_session" /\ Start(c, q)) =>
                /\ frame'[c].turn_id = 1
                /\ frame'[c].turn.turn_id = 1]_vars

\* a session of MaxTurns completed turns has been replaced
C14_Witness ==
    /\ obs # None
    /\ obs[1].op = "reset_session"
    /\ obs[1].replaced.turn_count = MaxTurns
    /\ Len(obs[1].replaced.conversation_history) = MaxTurns
    /\ session.turn_count = 0

\* C15: every session created by reset_session has a session_id different
\* from that of the session it replaces, also when the reset happens within
\* the clock second in which the replaced session was created.
C15_ResetChangesSessionId ==
    (obs # None /\ obs[1].op = "reset_session") =>
        session.session_id # obs[1].replaced.session_id

C16_IsPrefix(s, t) == Len(s) <= Len(t) /\ SubSeq(t, 1, Len(s)) = s

\* C16: within one session, over process_query, get_context and
\* get_session_summary calls, the history before a step is a prefix of the
\* history after it (no turn is reordered, deleted or rewritten), and
\* turn_count = Len(conversation_history) after every append.
C16_HistoryIsAppendOnly ==
    [][/\ C16_IsPrefix(session.conversation_history, session'.conversation_history)
       /\ session'.conversation_history # session.conversation_history =>
              session'.turn_count = Len(session'.conversation_history)]_vars

\* a second turn has been appended and the session summary read after it
C16_Witness ==
    /\ obs # None
    /\ obs[1].op = "get_session_summary"
    /\ obs[1].value.turns_completed = MaxTurns
    /\ Len(session.conversation_history) = MaxTurns
    /\ MaxTurns >= 2

\* every turn of the history is the turn some retrieval and web-search
\* answers make process_query append
HistoryIsOfCompletedTurns ==
    \A i \in DOMAIN session.conversation_history :
        \E q \in Queries, results \in RetrievalOutcomes, response \in WebOutcomes :
            session.conversation_history[i] = CompletedTurn(i, q, 0, results, response)

\* the lines of turn h[i] and of the turns after it, up to h[n]
RECURSIVE C17_LinesFrom(_, _, _)
C17_LinesFrom(h, i, n) ==
    IF i > n THEN <<>>
    ELSE << <<"Turn", h[i].turn_id, h[i].query>>,
            <<"Answer", h[i].final_answer[1]>> >> \o C17_LinesFrom(h, i + 1, n)

\* the route a retrieval outcome is given, whatever the session holds
C17_LocalFor(documents, distances) ==
    /\ documents # <<>>
    /\ distances # <<>>
    /\ distances[1] <= HIGH_CONFIDENCE_THRESHOLD

\* C17: get_context returns a digest of exactly the most recent
\* min(3, turn_count) turns of the history, the oldest of them first, and
\* the route of a process_query call depends on its retrieval outcome alone:
\* sessions with different histories route the same outcome the same way.
C17_ContextIsRecentWindow ==
    /\ (obs # None /\ obs[1].op = "get_context") =>
          LET h == session.conversation_history
              n == session.turn_count
              k == IF n < 3 THEN n ELSE 3
          IN  IF n = 0
              THEN obs[1].value = << <<"No previous conversation history.">> >>
              ELSE /\ Head(obs[1].value) = <<"Previous conversation turns:">>
                   /\ Tail(obs[1].value) = C17_LinesFrom(h, n - k + 1, n)
    /\ \A c \in Calls :
          Routed(c) =>
              (OnFallbackPath(c) <=>
                  ~C17_LocalFor(frame[c].documents, frame[c].distances))

\* get_context has been called on a session holding more turns than the
\* window, and a query routed on such a session
C17_Witness ==
    /\ obs # None
    /\ obs[1].op = "get_context"
    /\ session.turn_count = MaxHistory + 1
    /\ Len(obs[1].value) = 1 + 2 * ContextWindow
    /\ obs[1].value[2][2] = MaxHistory - 1
    /\ Returned("c1")

\* the state the machine is in before activation c runs its next statement,
\* on the path IDLE -> RETRIEVING -> EVALUATING [-> SEARCHING_WEB] ->
\* PROCESSING -> COMPLETE -> IDLE
C18_StateAt(c) ==
    CASE pc[c] = "transition_retrieving" -> IDLE
      [] pc[c] \in {"retrieve", "transition_evaluating"} -> RETRIEVING
      [] pc[c] \in {"evaluate", "route"} -> EVALUATING
      [] pc[c] \in {"web_search", "transition_processing"} -> SEARCHING_WEB
      [] pc[c] = "transition_complete" -> PROCESSING
      [] pc[c] \in {"add_turn", "respond", "transition_idle"} -> COMPLETE
      [] OTHER -> IDLE

\* the call follows the path, SEARCHING_WEB being visited on the fallback
\* path only, every transition call returns true, and the turn is appended
\* in COMPLETE with agent_state COMPLETE
C18_OnPath(c) ==
    /\ session.current_state = C18_StateAt(c)
    /\ session.current_state = SEARCHING_WEB => OnFallbackPath(c)
    /\ ret[c] = IF pc[c] = "transition_retrieving" THEN None ELSE Some(TRUE)
    /\ pc[c] = "add_turn" => frame[c].turn.agent_state = COMPLETE
    /\ \A i \in DOMAIN session.conversation_history :
          session.conversation_history[i].agent_state = COMPLETE

\* C18 as stated: a call started in IDLE follows the path of its route with
\* every transition returning true, the turn is appended in COMPLETE with
\* agent_state COMPLETE, and the turn's agent_state equals the session's
\* current_state after each step, the last one (COMPLETE -> IDLE) included.
C18_TurnStateAlwaysSessionState ==
    \A c \in Calls :
        (InFlight(c) \/ Returned(c)) =>
            /\ C18_OnPath(c)
            /\ frame[c].turn.agent_state = session.current_state

\* C18 amended: the same, with the turn's agent_state equal to the session's
\* current_state after each step up to COMPLETE; the final transition
\* COMPLETE -> IDLE moves the session only, and the turn stays COMPLETE.
C18_TurnStateUpToComplete ==
    \A c \in Calls :
        (InFlight(c) \/ Returned(c)) =>
            /\ C18_OnPath(c)
            /\ InFlight(c) => frame[c].turn.agent_state = session.current_state
            /\ Returned(c) => /\ frame[c].turn.agent_state = COMPLETE
                              /\ session.current_state = IDLE

\* a call has returned on each path: the second one from the fallback path
\* after a first one on the local path
C18_Witness ==
    \E c \in Calls :
        /\ Returned(c)
        /\ OnFallbackPath(c)
        /\ session.turn_count = 2
        /\ session.conversation_history[1].source = Some(<<"Local Database">>)
        /\ session.conversation_history[2].agent_state = COMPLETE
        /\ session.current_state = IDLE

\* the history holds two turns with the same turn_id
C19_DuplicateIds ==
    \E i, j \in DOMAIN session.conversation_history :
        /\ i < j
        /\ session.conversation_history[i].turn_id =
           session.conversation_history[j].turn_id

\* activation c has appended its turn
C19_Appended(c) == pc[c] \in {"respond", "transition_idle"} \/ Returned(c)

\* C19: when two process_query calls on one session interleave at the
\* retrieval and web-search calls, nothing keeps them apart: two calls that
\* were allocated the same turn_id both append, so the history holds
\* duplicate turn ids, and a call whose transition was rejected goes on to
\* its next statement all the same (it is never aborted and the machine
\* never enters ERROR).
C19_InterleavingIsUnguarded ==
    /\ \A c, d \in Calls :
          (c # d /\ C19_Appended(c) /\ C19_Appended(d)
                 /\ frame[c].turn_id = frame[d].turn_id) => C19_DuplicateIds
    /\ \A c \in Calls :
          ret[c] = Some(FALSE) =>
              /\ pc[c] # "raised"
              /\ session.current_state # ERROR
              /\ InFlight(c) => ENABLED ConcStep(c) \/ ~MayRun(c)

\* both calls were allocated turn_id 1 and have returned a response, the
\* history holds two turns with turn_id 1, and the last transition of one of
\* them was rejected
C19_Witness ==
    \E c, d \in Calls :
        /\ c # d
        /\ Returned(c) /\ Returned(d)
        /\ frame[c].turn_id = 1 /\ frame[d].turn_id = 1
        /\ C19_DuplicateIds
        /\ ret[d] = Some(FALSE)
        /\ frame[d].response[1].turn_id = 1

\* C20: in any sequence of process_query and reset_session calls the machine
\* is never in ERROR and no turn, in flight or in the history, has
\* agent_state ERROR; every turn of the history has agent_state COMPLETE with
\* final_answer and source set.
C20_NeverError ==
    /\ session.current_state # ERROR
    /\ \A c \in Calls : frame[c].turn.agent_state # ERROR
    /\ \A i \in DOMAIN session.conversation_history :
          LET turn == session.conversation_history[i]
          IN  /\ turn.agent_state = COMPLETE
              /\ turn.final_answer # None
              /\ turn.source # None

\* the last of MaxTurns calls met a failed web search, appended its turn and
\* returned
C20_Witness ==
    \E c \in Calls :
        /\ Returned(c)
        /\ frame[c].search_results # None
        /\ ~frame[c].search_results[1].success
        /\ session.turn_count = MaxTurns
        /\ session.conversation_history[MaxTurns].source = Some(<<"No Source">>)
        /\ session.conversation_history[MaxTurns].agent_state = COMPLETE

====
